---- MODULE Spec2Model ----
(***************************************************************************)
(* A model of torch-seg's training engine:                                 *)
(*   - Trainer.start / Trainer.iterate (src/torchseg/trainer.py): the      *)
(*     epoch loop, the per-batch gradient protocol, the histories, the     *)
(*     learning-rate scheduler and the checkpoint decision;                *)
(*   - MixedLoss / FocalLoss / dice_loss (src/torchseg/loss.py): the       *)
(*     shape check and the Dice coefficient in float32 arithmetic.         *)
(***************************************************************************)
EXTENDS Integers, Sequences, FiniteSets, TLC

VARIABLES
    \* ---- Trainer: configuration (args, dataloaders, the opaque model) ----
    num_epochs,      \* self.num_epochs
    total_batches,   \* phase -> len(self.dataloaders[phase])
    loss_values,     \* phase -> the losses self.forward can return on a batch
    \* ---- Trainer.start ----
    pc,              \* position in start / iterate
    epoch,           \* loop variable of start
    state,           \* the dict built at lines 133-138
    val_loss,        \* return value of iterate(epoch, "val")
    best_loss,       \* self.best_loss
    \* ---- Trainer.iterate ----
    phase,           \* argument of iterate
    itr,             \* batches of this phase already processed
    loss,            \* loss.item() of the batch in flight
    running_loss,    \* local running_loss
    batch_losses,    \* the per-batch losses of the phase in flight, in order
    ops,             \* calls made on loss/optimizer for the batch in flight
    meter,           \* Meter: number of update() calls
    training,        \* self.net.training
    grads,           \* backward passes accumulated in .grad since the last zero_grad
    params,          \* version of the net's parameters (optimizer updates applied)
    opt_steps,       \* optimizer state: updates performed
    losses, dice_scores, iou_scores, acc_scores,   \* phase -> history
    \* ---- scheduler, optimizer learning rate ----
    lr,              \* optimizer.param_groups[0]["lr"], in units of 1e-9
    sched,           \* ReduceLROnPlateau: best, num_bad_epochs
    sched_log,       \* what scheduler.step did, one entry per call
    \* ---- the outside world ----
    ckpt,            \* content of the file at self.checkpoint_path
    saves,           \* torch.save calls, one entry per call
    console,         \* lines printed: phase starts and "New optimal found"
    entry,           \* best_loss and the checkpoint file as the current epoch began
    \* ---- MixedLoss.forward (loss.py) ----
    lpc,             \* position in MixedLoss.forward
    logits,          \* [shape, data]: the logits tensor
    target,          \* [shape, data]: the mask tensor
    work,            \* numeric operations performed so far, in order
    result           \* what forward returned or raised

vars == << num_epochs, total_batches, loss_values, pc, epoch, state, val_loss,
           best_loss, phase, itr, loss, running_loss, batch_losses, ops, meter,
           training, grads, params, opt_steps, losses, dice_scores, iou_scores,
           acc_scores, lr, sched, sched_log, ckpt, saves, console, entry,
           lpc, logits, target, work, result >>

lossVars == << lpc, logits, target, work, result >>

---------------------------------------------------------------------------
\* Bounds of the model.
MaxEpochs == 6        \* Spec: epochs of a run
LongEpochs == 30      \* SpecLong: epochs of a long run
MaxBatches == 2       \* Spec: batches per phase
MaxLoss == 2          \* distinct per-batch losses near LossScale
LossScale == 10000    \* a per-batch loss of 1.0, in the model's loss unit

\* Program constants.
ValidationInterval == 5   \* epoch % 5 == 0
Patience == 3             \* ReduceLROnPlateau(patience=3)
MinLr == 3000             \* min_lr=3e-6, in units of 1e-9

Phases == {"train", "val"}

---------------------------------------------------------------------------
\* Losses are Python floats.  A loss is kept as the exact quotient num/den;
\* float("inf") is 1/0.
Inf == [num |-> 1, den |-> 0]

Quot(n, d) == [num |-> n, den |-> d]

\* a < b on floats
Less(a, b) == a.num * b.den < b.num * a.den

\* a == b on floats
Same(a, b) == a.num * b.den = b.num * a.den

\* Per-batch losses the opaque model can produce.  Two of them differ by less
\* than the scheduler's relative threshold (1e-4).
NearLosses == { LossScale + k : k \in 0 .. (MaxLoss - 1) }

TwoLosses == { LossScale, LossScale + 1 }

AllLosses == NearLosses \cup { LossScale \div 2 }

\* Learning rates args.lr can take (units of 1e-9): 5e-4, 1e-5 and one below min_lr.
LrChoices == { 500000, 10000, 1000 }

---------------------------------------------------------------------------
\* Trainer.__init__

NoState == [epoch |-> 0, best_loss |-> Inf, state_dict |-> 0, optimizer |-> 0]

\* MixedLoss.forward has not returned
NoResult == [kind |-> "none", dice |-> [m |-> 0, e |-> 0]]

\* The file at self.checkpoint_path: absent, partly written, or a complete record.
NoFile == [status |-> "none", record |-> NoState]

InitCommon ==
    /\ pc = "loop"
    /\ epoch = 0
    /\ state = NoState
    /\ val_loss = Inf
    /\ best_loss = Inf
    /\ phase = "train"
    /\ itr = 0
    /\ loss = 0
    /\ running_loss = 0
    /\ batch_losses = << >>
    /\ ops = << >>
    /\ meter = 0
    /\ training = TRUE
    /\ grads = 0
    /\ params = 0
    /\ opt_steps = 0
    /\ losses = [p \in Phases |-> << >>]
    /\ dice_scores = [p \in Phases |-> << >>]
    /\ iou_scores = [p \in Phases |-> << >>]
    /\ acc_scores = [p \in Phases |-> << >>]
    /\ sched = [best |-> Inf, num_bad_epochs |-> 0]
    /\ sched_log = << >>
    /\ ckpt = NoFile
    /\ saves = << >>
    /\ console = << >>
    /\ entry = [best_loss |-> Inf, ckpt |-> NoFile]
    \* no loss computation is modelled in the Trainer's specifications
    /\ lpc = "idle"
    /\ logits = [shape |-> << >>, data |-> << >>]
    /\ target = [shape |-> << >>, data |-> << >>]
    /\ work = << >>
    /\ result = NoResult

\* A short run with several batches per phase and varying training losses.
Init ==
    /\ InitCommon
    /\ num_epochs = MaxEpochs
    /\ total_batches = [p \in Phases |-> MaxBatches]
    /\ loss_values = [p \in Phases |-> TwoLosses]
    /\ lr \in {500000}

\* A long run: many validations, one batch per phase, a steady training loss.
InitLong ==
    /\ InitCommon
    /\ num_epochs \in {10, LongEpochs}
    /\ total_batches = [p \in Phases |-> 1]
    /\ loss_values = [p \in Phases |-> IF p = "train" THEN {LossScale} ELSE AllLosses]
    /\ lr \in LrChoices

---------------------------------------------------------------------------
\* Meter (torchseg/metrics.py): update() once per batch, epoch_log() at the
\* end of the phase returns (dice, iou, acc, threshold).
MeterEpochLog(ph, ep, m) ==
    [dice |-> << "dice", ph, ep, m >>,
     iou  |-> << "iou", ph, ep, m >>,
     acc  |-> << "acc", ph, ep, m >>]

---------------------------------------------------------------------------
\* ReduceLROnPlateau(optimizer, mode="min", patience=3, cooldown=0, min_lr=3e-6)
\* with the library's defaults factor=0.1, threshold=1e-4 (relative), eps=1e-8.

\* is_better(a, best): a < best * (1 - threshold)
IsBetter(a, best) ==
    IF best.den = 0 THEN a.den # 0
    ELSE LET A == a.num * best.den
             B == best.num * a.den
         IN  (B - A) * 10000 > B

\* (mutation of ReduceLr: the rate is scaled without the floor at min_lr)
ReduceLrNoFloor(old) == old \div 10

\* _reduce_lr: new_lr = max(old_lr * factor, min_lr), applied if old - new > eps
ReduceLr(old) ==
    LET scaled == old \div 10
        new == IF scaled > MinLr THEN scaled ELSE MinLr
    IN  IF old - new > 10 THEN new ELSE old

\* scheduler.step(metrics): the scheduler's and the optimizer's next state
SchedulerStep(s, rate, metrics) ==
    LET better == IsBetter(metrics, s.best)
        best == IF better THEN metrics ELSE s.best
        bad == IF better THEN 0 ELSE s.num_bad_epochs + 1
        reduce == bad > Patience
    IN  [sched |-> [best |-> best, num_bad_epochs |-> IF reduce THEN 0 ELSE bad],
         lr |-> IF reduce THEN ReduceLr(rate) ELSE rate,
         better |-> better,
         reduce |-> reduce]

---------------------------------------------------------------------------
\* Trainer.start, the loop head: for epoch in range(1, self.num_epochs + 1)

\* (mutation of RunsValidation: the cadence is off by one epoch)
RunsValidationOffByOne(ep) == ep % ValidationInterval = 1

\* line 140: if epoch % 5 == 0
RunsValidation(ep) == ep % ValidationInterval = 0

LoopNext ==
    /\ pc = "loop"
    /\ epoch < num_epochs
    /\ epoch' = epoch + 1
    /\ phase' = "train"
    /\ entry' = [best_loss |-> best_loss, ckpt |-> ckpt]
    /\ pc' = "iter_begin"
    /\ UNCHANGED << lossVars, num_epochs, total_batches, loss_values, state, val_loss,
                    best_loss, itr, loss, running_loss, batch_losses, ops, meter,
                    training, grads, params, opt_steps, losses, dice_scores,
                    iou_scores, acc_scores, lr, sched, sched_log, ckpt, saves,
                    console >>

LoopExit ==
    /\ pc = "loop"
    /\ epoch >= num_epochs
    /\ pc' = "done"
    /\ UNCHANGED << lossVars, entry, num_epochs, total_batches, loss_values, epoch, state,
                    val_loss, best_loss, phase, itr, loss, running_loss,
                    batch_losses, ops, meter, training, grads, params, opt_steps,
                    losses, dice_scores, iou_scores, acc_scores, lr, sched,
                    sched_log, ckpt, saves, console >>

---------------------------------------------------------------------------
\* Trainer.iterate

\* lines 82-96: meter, start line, net.train(phase == "train"), zero_grad
IterateBegin ==
    /\ pc = "iter_begin"
    /\ meter' = 0
    /\ console' = Append(console, << "start", epoch, phase >>)
    /\ training' = (phase = "train")
    /\ running_loss' = 0
    /\ batch_losses' = << >>
    /\ itr' = 0
    /\ grads' = 0
    /\ ops' = << >>
    /\ pc' = "forward"
    /\ UNCHANGED << lossVars, entry, num_epochs, total_batches, loss_values, epoch, state,
                    val_loss, best_loss, phase, loss, params, opt_steps, losses,
                    dice_scores, iou_scores, acc_scores, lr, sched, sched_log,
                    ckpt, saves >>

\* lines 98-101: the forward pass of one batch
Forward ==
    /\ pc = "forward"
    /\ \E l \in loss_values[phase] : loss' = l
    /\ ops' = << >>
    /\ pc' = IF phase = "train" THEN "backward" ELSE "stats"
    /\ UNCHANGED << lossVars, entry, num_epochs, total_batches, loss_values, epoch, state,
                    val_loss, best_loss, phase, itr, running_loss, batch_losses,
                    meter, training, grads, params, opt_steps, losses,
                    dice_scores, iou_scores, acc_scores, lr, sched, sched_log,
                    ckpt, saves, console >>

\* line 103: loss.backward() adds this batch's gradients to .grad
Backward ==
    /\ pc = "backward"
    /\ grads' = grads + 1
    /\ ops' = Append(ops, << "backward", grads >>)
    /\ pc' = "step"
    /\ UNCHANGED << lossVars, entry, num_epochs, total_batches, loss_values, epoch, state,
                    val_loss, best_loss, phase, itr, loss, running_loss,
                    batch_losses, meter, training, params, opt_steps, losses,
                    dice_scores, iou_scores, acc_scores, lr, sched, sched_log,
                    ckpt, saves, console >>

\* line 104: self.optimizer.step()
OptimizerStep ==
    /\ pc = "step"
    /\ params' = params + 1
    /\ opt_steps' = opt_steps + 1
    /\ ops' = Append(ops, << "step", grads >>)
    /\ pc' = "zero_grad"
    /\ UNCHANGED << lossVars, entry, num_epochs, total_batches, loss_values, epoch, state,
                    val_loss, best_loss, phase, itr, loss, running_loss,
                    batch_losses, meter, training, grads, losses, dice_scores,
                    iou_scores, acc_scores, lr, sched, sched_log, ckpt, saves,
                    console >>

\* (mutation of ZeroGrad: the per-batch reset is left out)
ZeroGradSkipped ==
    /\ pc = "zero_grad"
    /\ ops' = Append(ops, << "zero_grad", grads >>)
    /\ pc' = "stats"
    /\ UNCHANGED << lossVars, entry, num_epochs, total_batches, loss_values,
                    epoch, state, val_loss, best_loss, phase, itr, loss,
                    running_loss, batch_losses, meter, training, grads, params,
                    opt_steps, losses, dice_scores, iou_scores, acc_scores, lr,
                    sched, sched_log, ckpt, saves, console >>

\* line 105: self.optimizer.zero_grad()
ZeroGrad ==
    /\ pc = "zero_grad"
    /\ grads' = 0
    /\ ops' = Append(ops, << "zero_grad", grads >>)
    /\ pc' = "stats"
    /\ UNCHANGED << lossVars, entry, num_epochs, total_batches, loss_values, epoch, state,
                    val_loss, best_loss, phase, itr, loss, running_loss,
                    batch_losses, meter, training, params, opt_steps, losses,
                    dice_scores, iou_scores, acc_scores, lr, sched, sched_log,
                    ckpt, saves, console >>

\* lines 107-110: running_loss += loss.item(); meter.update(targets, logits)
Stats ==
    /\ pc = "stats"
    /\ running_loss' = running_loss + loss
    /\ batch_losses' = Append(batch_losses, loss)
    /\ meter' = meter + 1
    /\ itr' = itr + 1
    /\ loss' = 0
    /\ pc' = IF itr + 1 < total_batches[phase] THEN "forward" ELSE "iter_end"
    /\ UNCHANGED << lossVars, entry, num_epochs, total_batches, loss_values, epoch, state,
                    val_loss, best_loss, phase, ops, training, grads, params,
                    opt_steps, losses, dice_scores, iou_scores, acc_scores, lr,
                    sched, sched_log, ckpt, saves, console >>

\* (mutation of EpochLoss: the running sum is not divided)
EpochLossUndivided(running, total) == Quot(running, 1)

\* line 113: epoch_loss = running_loss / total_batches
EpochLoss(running, total) == Quot(running, total)

\* lines 113-125: epoch loss, the four appends, return epoch_loss
IterateEnd ==
    /\ pc = "iter_end"
    /\ LET epoch_loss == EpochLoss(running_loss, total_batches[phase])
           m == MeterEpochLog(phase, epoch, meter)
       IN  /\ losses' = [losses EXCEPT ![phase] = Append(@, epoch_loss)]
           /\ dice_scores' = [dice_scores EXCEPT ![phase] = Append(@, m.dice)]
           /\ iou_scores' = [iou_scores EXCEPT ![phase] = Append(@, m.iou)]
           /\ acc_scores' = [acc_scores EXCEPT ![phase] = Append(@, m.acc)]
           /\ val_loss' = IF phase = "val" THEN epoch_loss ELSE val_loss
    /\ running_loss' = 0
    /\ batch_losses' = << >>
    /\ ops' = << >>
    /\ meter' = 0
    /\ pc' = IF phase = "train" THEN "build_state" ELSE "sched"
    /\ UNCHANGED << lossVars, entry, num_epochs, total_batches, loss_values, epoch, state,
                    best_loss, phase, itr, loss, training, grads, params,
                    opt_steps, lr, sched, sched_log, ckpt, saves, console >>

---------------------------------------------------------------------------
\* Trainer.start, the body of the loop after the training phase

\* lines 133-140: the state dict, then the validation test
BuildState ==
    /\ pc = "build_state"
    /\ state' = [epoch |-> epoch, best_loss |-> best_loss,
                 state_dict |-> params, optimizer |-> opt_steps]
    /\ IF RunsValidation(epoch)
       THEN /\ phase' = "val"
            /\ pc' = "iter_begin"
       ELSE /\ phase' = phase
            /\ pc' = "loop"
    /\ UNCHANGED << lossVars, entry, num_epochs, total_batches, loss_values, epoch, val_loss,
                    best_loss, itr, loss, running_loss, batch_losses, ops, meter,
                    training, grads, params, opt_steps, losses, dice_scores,
                    iou_scores, acc_scores, lr, sched, sched_log, ckpt, saves,
                    console >>

\* line 143: self.scheduler.step(val_loss)
StepScheduler ==
    /\ pc = "sched"
    /\ LET r == SchedulerStep(sched, lr, val_loss)
       IN  /\ sched' = r.sched
           /\ lr' = r.lr
           /\ sched_log' = Append(sched_log,
                  [epoch |-> epoch, metrics |-> val_loss, better |-> r.better,
                   reduce |-> r.reduce, old_lr |-> lr, new_lr |-> r.lr,
                   saves |-> Len(saves)])
    /\ pc' = "decide"
    /\ UNCHANGED << lossVars, entry, num_epochs, total_batches, loss_values, epoch, state,
                    val_loss, best_loss, phase, itr, loss, running_loss,
                    batch_losses, ops, meter, training, grads, params, opt_steps,
                    losses, dice_scores, iou_scores, acc_scores, ckpt, saves,
                    console >>

\* (mutation of Improves: a tie counts as an improvement)
ImprovesOrTies(v, best) == ~Less(best, v)

\* (mutation of Improves: the comparison is the wrong way round)
ImprovesReversed(v, best) == Less(best, v)

\* line 148: if val_loss < self.best_loss
Improves(v, best) == Less(v, best)

\* (mutation of NewBest: the record keeps the best_loss it was built with)
NewBestStale(st, v) == st

\* line 150: state["best_loss"] = self.best_loss = val_loss
NewBest(st, v) == [st EXCEPT !.best_loss = v]

\* lines 148-150
Decide ==
    /\ pc = "decide"
    /\ IF Improves(val_loss, best_loss)
       THEN /\ console' = Append(console, << "new optimal", epoch, phase >>)
            /\ state' = NewBest(state, val_loss)
            /\ best_loss' = val_loss
            /\ pc' = "save"
       ELSE /\ UNCHANGED << console, state, best_loss >>
            /\ pc' = "loop"
    /\ UNCHANGED << lossVars, entry, num_epochs, total_batches, loss_values, epoch, val_loss,
                    phase, itr, loss, running_loss, batch_losses, ops, meter,
                    training, grads, params, opt_steps, losses, dice_scores,
                    iou_scores, acc_scores, lr, sched, sched_log, ckpt, saves >>

\* line 154: torch.save(state, self.checkpoint_path) opens the path for
\* writing, which truncates the file, and then writes the record into it.
OpenForWrite(old) == [status |-> "partial", record |-> NoState]

\* the file once torch.save has written the whole record
Written(st) == [status |-> "complete", record |-> st]

SaveBegin ==
    /\ pc = "save"
    /\ ckpt' = OpenForWrite(ckpt)
    /\ saves' = Append(saves, [epoch |-> epoch, val_loss |-> val_loss,
                               best_loss |-> state.best_loss,
                               entry_best |-> entry.best_loss])
    /\ pc' = "saving"
    /\ UNCHANGED << lossVars, entry, num_epochs, total_batches, loss_values, epoch, state,
                    val_loss, best_loss, phase, itr, loss, running_loss,
                    batch_losses, ops, meter, training, grads, params, opt_steps,
                    losses, dice_scores, iou_scores, acc_scores, lr, sched,
                    sched_log, console >>

\* torch.save returns: the record is complete on disk
SaveFinish ==
    /\ pc = "saving"
    /\ ckpt' = Written(state)
    /\ pc' = "loop"
    /\ UNCHANGED << lossVars, entry, num_epochs, total_batches, loss_values, epoch, state,
                    val_loss, best_loss, phase, itr, loss, running_loss,
                    batch_losses, ops, meter, training, grads, params, opt_steps,
                    losses, dice_scores, iou_scores, acc_scores, lr, sched,
                    sched_log, saves, console >>

\* torch.save raises (disk full, I/O error) or the run is interrupted during
\* the write: nothing handles it (lines 145, 151), the run ends.
SaveFail ==
    /\ pc = "saving"
    /\ pc' = "crashed"
    /\ UNCHANGED << lossVars, entry, num_epochs, total_batches, loss_values, epoch, state,
                    val_loss, best_loss, phase, itr, loss, running_loss,
                    batch_losses, ops, meter, training, grads, params, opt_steps,
                    losses, dice_scores, iou_scores, acc_scores, lr, sched,
                    sched_log, ckpt, saves, console >>

Next ==
    \/ LoopNext
    \/ LoopExit
    \/ IterateBegin
    \/ Forward
    \/ Backward
    \/ OptimizerStep
    \/ ZeroGrad
    \/ Stats
    \/ IterateEnd
    \/ BuildState
    \/ StepScheduler
    \/ Decide
    \/ SaveBegin
    \/ SaveFinish
    \/ SaveFail

Spec == Init /\ [][Next]_vars

SpecLong == InitLong /\ [][Next]_vars

---------------------------------------------------------------------------
\* loss.py works on float32 tensors (the default tensor type set in
\* Trainer.__init__).  A non-negative float32 is [m, e], standing for m * 2^e,
\* with m = 0 (zero) or 2^23 <= m < 2^24; results are rounded to nearest, ties
\* to even.  [val, exact] pairs a result with whether any rounding took place.

MaxLen == 3           \* elements of a tensor

TwoTo23 == 2 ^ 23
TwoTo24 == 2 ^ 24

F32(m, e) == [m |-> m, e |-> e]

Zero32 == F32(0, 0)
One32 == F32(TwoTo23, -23)
Half32 == F32(TwoTo23, -24)

\* smooth = 1e-7 as a float32
Smooth32 == F32(14073749, -47)

\* a <= b
LeqF(a, b) ==
    IF a.m = 0 THEN TRUE
    ELSE IF b.m = 0 THEN FALSE
    ELSE a.e < b.e \/ (a.e = b.e /\ a.m <= b.m)

\* (m + r/d) * 2^e rounded to a float32, where 2^23 <= m < 2^24 and 0 <= r < d
RoundF(m, e, r, d) ==
    LET up == (2 * r > d) \/ (2 * r = d /\ m % 2 = 1)
        m1 == IF up THEN m + 1 ELSE m
    IN  [val |-> IF m1 = TwoTo24 THEN F32(TwoTo23, e + 1) ELSE F32(m1, e),
         exact |-> (r = 0)]

\* a + b
AddF(a, b) ==
    IF a.m = 0 THEN [val |-> b, exact |-> TRUE]
    ELSE IF b.m = 0 THEN [val |-> a, exact |-> TRUE]
    ELSE LET hi == IF LeqF(a, b) THEN b ELSE a
             lo == IF LeqF(a, b) THEN a ELSE b
             sh == hi.e - lo.e
         IN  IF sh > 25 THEN [val |-> hi, exact |-> FALSE]
             ELSE LET d == 2 ^ sh
                      sum == hi.m + (lo.m \div d)
                      r == lo.m % d
                  IN  IF sum < TwoTo24 THEN RoundF(sum, hi.e, r, d)
                      ELSE RoundF(sum \div 2, hi.e + 1, (sum % 2) * d + r, 2 * d)

\* a * b where b is zero or a power of two (a mask value, or the factor 2.0):
\* the product is exact
MulPow2(a, b) ==
    IF a.m = 0 \/ b.m = 0 THEN Zero32 ELSE F32(a.m, a.e + b.e + 23)

\* floor(n * 2^k / d) and the remainder, by long division; q, r: quotient and
\* remainder so far
RECURSIVE LongDiv(_, _, _, _)
LongDiv(q, r, d, k) ==
    IF k = 0 THEN [q |-> q, r |-> r]
    ELSE IF 2 * r >= d THEN LongDiv(2 * q + 1, 2 * r - d, d, k - 1)
         ELSE LongDiv(2 * q, 2 * r, d, k - 1)

\* a / b, b > 0
DivF(a, b) ==
    IF a.m = 0 THEN [val |-> Zero32, exact |-> TRUE]
    ELSE IF a.m >= b.m
         THEN LET x == LongDiv(1, a.m - b.m, b.m, 23)
              IN  RoundF(x.q, a.e - b.e - 23, x.r, b.m)
         ELSE LET x == LongDiv(0, a.m, b.m, 24)
              IN  RoundF(x.q, a.e - b.e - 24, x.r, b.m)

\* tensor.sum(): the elements are added one after the other
RECURSIVE SumF(_)
SumF(xs) ==
    IF xs = << >> THEN [val |-> Zero32, exact |-> TRUE]
    ELSE LET front == SumF(SubSeq(xs, 1, Len(xs) - 1))
             total == AddF(front.val, xs[Len(xs)])
         IN  [val |-> total.val, exact |-> front.exact /\ total.exact]

\* the logits a tensor can hold, and torch.sigmoid of each in float32:
\* 1 / (1 + exp(-x)) is 0 at -200 (exp overflows), about 4.14e-8 at -17 and 1 at 20
Logits == { -200, -17, 20 }

Sigmoid(x) ==
    CASE x = -200 -> Zero32
      [] x = -17 -> F32(11652889, -48)
      [] x = 20 -> One32

\* the values a mask can hold: 0, 0.5 and 1
MaskValues == { Zero32, Half32, One32 }

\* tensor shapes: [batch, 1, H, W], and [batch, H, W] (no channel dimension)
Shapes ==
    { << 1, 1, 1, n >> : n \in 1 .. MaxLen } \cup { << 1, 1, n >> : n \in 1 .. MaxLen }

RECURSIVE Numel(_)
Numel(shape) ==
    IF shape = << >> THEN 1 ELSE shape[1] * Numel(SubSeq(shape, 2, Len(shape)))

Tensors(values) ==
    UNION { { [shape |-> sh, data |-> d] : d \in [1 .. Numel(sh) -> values] } :
            sh \in Shapes }

\* (mutation of DiceLoss: smooth is added to the denominator only)
DiceLossSmoothBelowOnly(iflat, tflat) ==
    LET n == Len(iflat)
        inter == SumF([i \in 1 .. n |-> MulPow2(iflat[i], tflat[i])])
        isum == SumF(iflat)
        tsum == SumF(tflat)
        num == MulPow2(inter.val, F32(TwoTo23, -22))
        den1 == AddF(isum.val, tsum.val)
        den == AddF(den1.val, Smooth32)
        quot == DivF(num, den.val)
    IN  [val |-> quot.val,
         exact |-> inter.exact /\ isum.exact /\ tsum.exact]

\* dice_loss, lines 14-15, on the flattened probabilities and mask:
\* (2.0 * intersection + smooth) / (iflat.sum() + tflat.sum() + smooth);
\* exact: no sum over the elements was rounded
DiceLoss(iflat, tflat) ==
    LET n == Len(iflat)
        inter == SumF([i \in 1 .. n |-> MulPow2(iflat[i], tflat[i])])
        isum == SumF(iflat)
        tsum == SumF(tflat)
        num == AddF(MulPow2(inter.val, F32(TwoTo23, -22)), Smooth32)
        den1 == AddF(isum.val, tsum.val)
        den == AddF(den1.val, Smooth32)
        quot == DivF(num.val, den.val)
    IN  [val |-> quot.val,
         exact |-> inter.exact /\ isum.exact /\ tsum.exact]

\* line 11: probs = torch.sigmoid(logits), flattened (line 12)
Probs(data) == [i \in 1 .. Len(data) |-> Sigmoid(data[i])]

InitLoss ==
    /\ lpc = "focal_check"
    /\ logits \in Tensors(Logits)
    /\ target \in Tensors(MaskValues)
    /\ work = << >>
    /\ result = NoResult
    \* no training run is modelled in the loss's specification
    /\ pc = "idle"
    /\ epoch = 0
    /\ state = NoState
    /\ val_loss = Inf
    /\ best_loss = Inf
    /\ phase = "train"
    /\ itr = 0
    /\ loss = 0
    /\ running_loss = 0
    /\ batch_losses = << >>
    /\ ops = << >>
    /\ meter = 0
    /\ training = TRUE
    /\ grads = 0
    /\ params = 0
    /\ opt_steps = 0
    /\ losses = [p \in Phases |-> << >>]
    /\ dice_scores = [p \in Phases |-> << >>]
    /\ iou_scores = [p \in Phases |-> << >>]
    /\ acc_scores = [p \in Phases |-> << >>]
    /\ sched = [best |-> Inf, num_bad_epochs |-> 0]
    /\ sched_log = << >>
    /\ ckpt = NoFile
    /\ saves = << >>
    /\ console = << >>
    /\ entry = [best_loss |-> Inf, ckpt |-> NoFile]
    /\ num_epochs = 0
    /\ total_batches = [p \in Phases |-> 1]
    /\ loss_values = [p \in Phases |-> {}]
    /\ lr = 0

trainerVars ==
    << num_epochs, total_batches, loss_values, pc, epoch, state, val_loss,
       best_loss, phase, itr, loss, running_loss, batch_losses, ops, meter,
       training, grads, params, opt_steps, losses, dice_scores, iou_scores,
       acc_scores, lr, sched, sched_log, ckpt, saves, console, entry >>

\* (mutation of FocalCheck: the size test is left out)
FocalCheckMissing ==
    /\ lpc = "focal_check"
    /\ lpc' = "focal_math"
    /\ UNCHANGED << logits, target, work, result, trainerVars >>

\* FocalLoss.forward, lines 27-29, reached first from MixedLoss.forward line 48
FocalCheck ==
    /\ lpc = "focal_check"
    /\ IF target.shape # logits.shape
       THEN /\ result' = [kind |-> "ValueError", dice |-> Zero32]
            /\ lpc' = "raised"
       ELSE /\ result' = result
            /\ lpc' = "focal_math"
    /\ UNCHANGED << logits, target, work, trainerVars >>

\* two shapes broadcast when, aligned at the right, their sizes agree or are 1
Broadcastable(a, b) ==
    \A k \in 0 .. 3 :
        (k < Len(a) /\ k < Len(b)) =>
            \/ a[Len(a) - k] = b[Len(b) - k]
            \/ a[Len(a) - k] = 1
            \/ b[Len(b) - k] = 1

\* FocalLoss.forward, lines 30-35: the element-wise focal term and its mean
FocalMath ==
    /\ lpc = "focal_math"
    /\ work' = Append(work, "focal")
    /\ IF Broadcastable(logits.shape, target.shape)
       THEN /\ result' = result
            /\ lpc' = "dice"
       ELSE /\ result' = [kind |-> "RuntimeError", dice |-> Zero32]
            /\ lpc' = "raised"
    /\ UNCHANGED << logits, target, trainerVars >>

\* dice_loss, lines 11-15, called from MixedLoss.forward line 49
Dice ==
    /\ lpc = "dice"
    /\ work' = Append(work, "dice")
    /\ IF Len(logits.data) = Len(target.data)
       THEN /\ result' = [kind |-> "dice",
                          dice |-> DiceLoss(Probs(logits.data), target.data).val]
            /\ lpc' = "combine"
       ELSE /\ result' = [kind |-> "RuntimeError", dice |-> Zero32]
            /\ lpc' = "raised"
    /\ UNCHANGED << logits, target, trainerVars >>

\* MixedLoss.forward, lines 48-50: alpha * focal - log(dice), then .mean()
Combine ==
    /\ lpc = "combine"
    /\ work' = Append(work, "combine")
    /\ result' = [kind |-> "scalar", dice |-> result.dice]
    /\ lpc' = "returned"
    /\ UNCHANGED << logits, target, trainerVars >>

NextLoss ==
    \/ FocalCheck
    \/ FocalMath
    \/ Dice
    \/ Combine

SpecLoss == InitLoss /\ [][NextLoss]_vars

---------------------------------------------------------------------------
\* Helpers of the properties below.

\* the epoch has run to its end and the loop is about to take the next one
AtEpochEnd == pc \in {"loop", "done"} /\ epoch >= 1

\* the validation losses the checkpoint decision has already seen
DecidedVal ==
    IF pc \in {"sched", "decide"}
    THEN SubSeq(losses["val"], 1, Len(losses["val"]) - 1)
    ELSE losses["val"]

\* min(a, b) on floats
MinLoss(a, b) == IF Less(b, a) THEN b ELSE a

RECURSIVE MinOfSeq(_)
MinOfSeq(h) ==
    IF h = << >> THEN Inf
    ELSE MinLoss(MinOfSeq(SubSeq(h, 1, Len(h) - 1)), h[Len(h)])

\* the index of the last entry of h that is strictly below everything before it
RECURSIVE LastRecord(_)
LastRecord(h) ==
    IF h = << >> THEN 0
    ELSE IF Less(h[Len(h)], MinOfSeq(SubSeq(h, 1, Len(h) - 1)))
         THEN Len(h)
         ELSE LastRecord(SubSeq(h, 1, Len(h) - 1))

\* the phases a run of k whole epochs starts, in order
RECURSIVE ExpectedPhases(_)
ExpectedPhases(k) ==
    IF k = 0 THEN << >>
    ELSE ExpectedPhases(k - 1)
         \o << << k, "train" >> >>
         \o (IF k % 5 = 0 THEN << << k, "val" >> >> ELSE << >>)

IsStart(line) == line[1] = "start"

\* the phases started so far, from the console's start lines
StartedPhases ==
    LET starts == SelectSeq(console, IsStart)
    IN  [i \in 1 .. Len(starts) |-> << starts[i][2], starts[i][3] >>]

IsPrefix(a, b) == Len(a) <= Len(b) /\ SubSeq(b, 1, Len(a)) = a

SavesOfEpoch(e) == { i \in 1 .. Len(saves) : saves[i].epoch = e }

---------------------------------------------------------------------------
\* C1: torch.save is called in an epoch if and only if a VALIDATE phase ran in
\* that epoch and its val_loss is strictly below best_loss as it stood when
\* the epoch began; an epoch without validation, or whose val_loss is not
\* below the best, changes neither best_loss nor the checkpoint file; so after
\* k epochs at most k div 5 saves were made (at most 2 over 10 epochs).
C1_SaveIffImproved ==
    /\ \A i \in 1 .. Len(saves) :
          /\ saves[i].epoch % 5 = 0
          /\ Less(saves[i].val_loss, saves[i].entry_best)
          /\ Cardinality(SavesOfEpoch(saves[i].epoch)) = 1
    /\ Len(saves) <= epoch \div 5
    /\ (num_epochs = 10 => Len(saves) <= 2)
    /\ AtEpochEnd =>
          LET validated == (epoch % 5 = 0)
              improved == validated /\ Less(val_loss, entry.best_loss)
          IN  /\ (SavesOfEpoch(epoch) # {}) <=> improved
              /\ ~improved => (best_loss = entry.best_loss /\ ckpt = entry.ckpt)

\* a validated epoch that did not improve ended without a save, after an
\* earlier epoch that saved
C1_Witness ==
    /\ AtEpochEnd
    /\ epoch = 10
    /\ Len(saves) = 1
    /\ saves[1].epoch = 5
    /\ ~Less(val_loss, entry.best_loss)

\* C2: TRAIN runs once in every epoch, VALIDATE exactly in the epochs that are
\* multiples of 5, after that epoch's TRAIN and before the next epoch's; a
\* 10-epoch run validates exactly at epochs 5 and 10; the loop ends after epoch
\* N and nowhere else (short of a failed save), and never gets stuck.
C2_PhaseSchedule ==
    /\ epoch <= num_epochs
    /\ IsPrefix(StartedPhases, ExpectedPhases(num_epochs))
    /\ AtEpochEnd => StartedPhases = ExpectedPhases(epoch)
    /\ pc = "done" => epoch = num_epochs
    /\ (pc = "done" /\ num_epochs = 10) =>
          { i \in 1 .. Len(StartedPhases) : StartedPhases[i][2] = "val" } = {6, 12}
    /\ (pc \in {"done", "crashed"}) \/ ENABLED Next

\* a 10-epoch run has ended, with both of its validations made
C2_Witness ==
    /\ pc = "done"
    /\ num_epochs = 10
    /\ Len(losses["val"]) = 2
    /\ Len(losses["train"]) = 10

\* C3: best_loss starts at +infinity, never increases, equals the minimum of
\* the validation losses decided on so far, and the best_loss values of
\* successive saves strictly decrease.
C3_BestStep == ~Less(best_loss, best_loss')

C3_BestInv ==
    /\ (losses["val"] = << >> => best_loss = Inf)
    /\ Same(best_loss, MinOfSeq(DecidedVal))
    /\ \A i \in 1 .. Len(saves) - 1 :
          Less(saves[i + 1].best_loss, saves[i].best_loss)

C3_BestLossIsRunningMin == []C3_BestInv /\ [][C3_BestStep]_vars

\* three validations decided: two improved and saved, the last one did not
C3_Witness ==
    /\ AtEpochEnd
    /\ Len(losses["val"]) = 3
    /\ Len(saves) = 2
    /\ Less(best_loss, val_loss)

\* C4: the checkpoint path never holds a partially written record: it holds
\* no record yet, or a complete one.
C4_NeverPartial == ckpt.status # "partial"

\* C10: once a save has completed and none is under way, the file holds the
\* record of the most recent epoch whose validation loss set a new minimum:
\* its best_loss is the Trainer's best_loss (that epoch's val_loss), its epoch
\* is that epoch, and later epochs without improvement leave it as it is.
C10_RecordIsLatestBest ==
    (Len(saves) >= 1 /\ pc \notin {"save", "saving", "crashed"}) =>
        /\ ckpt.status = "complete"
        /\ ckpt.record.best_loss = best_loss
        /\ ckpt.record.epoch = 5 * LastRecord(DecidedVal)
        /\ ckpt.record.epoch = saves[Len(saves)].epoch
        /\ ckpt.record.best_loss = losses["val"][ckpt.record.epoch \div 5]

\* two records were written, the second over the first, and a later validated
\* epoch did not improve
C10_Witness ==
    /\ AtEpochEnd
    /\ Len(saves) = 2
    /\ Len(losses["val"]) = 3
    /\ epoch > ckpt.record.epoch
    /\ ckpt.record.epoch = 10

---------------------------------------------------------------------------
\* the positions inside Trainer.iterate
InIterate ==
    pc \in {"forward", "backward", "step", "zero_grad", "stats", "iter_end"}

OpNames == [i \in 1 .. Len(ops) |-> ops[i][1]]

\* C7: a TRAIN batch makes one backward, then one optimizer update, then a
\* gradient reset; .grad holds nothing when a backward starts (also in the
\* first batch after a VALIDATE phase) and one batch's gradients when the
\* update is applied; a VALIDATE phase makes no backward and no update, so
\* the parameters and the optimizer state stay as they were when it began.
C7_OneStepPerBatch ==
    /\ grads <= 1
    /\ pc = "backward" => grads = 0
    /\ pc = "step" => grads = 1
    /\ (pc = "stats" /\ phase = "train") =>
          /\ OpNames = << "backward", "step", "zero_grad" >>
          /\ grads = 0
          /\ params = (epoch - 1) * total_batches["train"] + itr + 1
    /\ (InIterate /\ phase = "train") => training
    /\ (InIterate /\ phase = "val") =>
          /\ ~training
          /\ ops = << >>
          /\ grads = 0
          /\ params = state.state_dict
          /\ opt_steps = state.optimizer
    /\ opt_steps = params
    /\ AtEpochEnd => params = epoch * total_batches["train"]

\* the first backward of the epoch that follows a VALIDATE phase is about to start
C7_Witness ==
    /\ pc = "backward"
    /\ epoch = 6
    /\ itr = 0
    /\ Len(losses["val"]) = 1
    /\ params = 5 * total_batches["train"]

RECURSIVE SumSeq(_)
SumSeq(q) == IF q = << >> THEN 0 ELSE SumSeq(SubSeq(q, 1, Len(q) - 1)) + q[Len(q)]

Histories == << losses, dice_scores, iou_scores, acc_scores >>

\* C8: the histories are append-only: the end of a phase appends one entry to
\* each of the four histories of that phase and nothing else ever changes a
\* history; after k whole epochs the train histories hold k entries and the
\* val histories k div 5; the loss appended is the sum of the phase's
\* per-batch losses divided by the phase's number of batches.
C8_HistInv ==
    /\ \A i \in 1 .. 4 : \A ph \in Phases :
          Len(Histories[i][ph]) = Len(losses[ph])
    /\ AtEpochEnd =>
          /\ Len(losses["train"]) = epoch
          /\ Len(losses["val"]) = epoch \div 5

C8_HistStep ==
    /\ \A ph \in Phases :
          /\ IsPrefix(losses[ph], losses'[ph])
          /\ IsPrefix(dice_scores[ph], dice_scores'[ph])
          /\ IsPrefix(iou_scores[ph], iou_scores'[ph])
          /\ IsPrefix(acc_scores[ph], acc_scores'[ph])
          /\ Len(losses'[ph]) =
                Len(losses[ph]) + (IF pc = "iter_end" /\ ph = phase THEN 1 ELSE 0)
          /\ Len(dice_scores'[ph]) = Len(losses'[ph])
          /\ Len(iou_scores'[ph]) = Len(losses'[ph])
          /\ Len(acc_scores'[ph]) = Len(losses'[ph])
    /\ pc = "iter_end" =>
          LET new == losses'[phase][Len(losses'[phase])]
          IN  /\ Len(batch_losses) = total_batches[phase]
              /\ new.num * Len(batch_losses) = SumSeq(batch_losses) * new.den
              /\ new.den > 0

C8_HistoriesAppendOnly == []C8_HistInv /\ [][C8_HistStep]_vars

\* six epochs are over: six train entries, one val entry, several batches each
C8_Witness ==
    /\ AtEpochEnd
    /\ epoch = 6
    /\ total_batches["train"] >= 2
    /\ Len(losses["train"]) = 6
    /\ Len(acc_scores["val"]) = 1
    /\ losses["train"][1] # losses["train"][2]

---------------------------------------------------------------------------
\* the validation losses fed to the scheduler before check i
FedBefore(i) == [j \in 1 .. (i - 1) |-> sched_log[j].metrics]

\* check i lowered the learning rate
Reduced(i) == sched_log[i].new_lr < sched_log[i].old_lr

\* the loss of check j is below every earlier one
StrictlyImproved(j) == Less(sched_log[j].metrics, MinOfSeq(FedBefore(j)))

\* the loss of check j is below every earlier one by more than 1 part in 10000
ClearlyImproved(j) ==
    LET m == sched_log[j].metrics
        b == MinOfSeq(FedBefore(j))
    IN  \/ b.den = 0
        \/ m.num * b.den * 10000 < b.num * m.den * 9999

\* the scheduler is stepped once per VALIDATE phase, with its val_loss, before
\* the checkpoint decision of that epoch, and in no other epoch
C9_SteppedOncePerValidation ==
    /\ Len(sched_log) = Len(losses["val"]) - (IF pc = "sched" THEN 1 ELSE 0)
    /\ AtEpochEnd => Len(sched_log) = epoch \div 5
    /\ \A i \in 1 .. Len(sched_log) :
          /\ sched_log[i].epoch = 5 * i
          /\ sched_log[i].metrics = losses["val"][i]
          /\ sched_log[i].saves =
                Cardinality({ j \in 1 .. Len(saves) : saves[j].epoch < 5 * i })

\* the learning rate never rises and a reduction stops at min_lr
C9_RateBounds ==
    /\ \A i \in 1 .. Len(sched_log) :
          /\ sched_log[i].new_lr <= sched_log[i].old_lr
          /\ Reduced(i) => sched_log[i].new_lr >= MinLr
          /\ i > 1 => sched_log[i].old_lr = sched_log[i - 1].new_lr
    /\ Len(sched_log) >= 1 => lr = sched_log[Len(sched_log)].new_lr

\* C9, as claimed: the scheduler is stepped once per VALIDATE phase with its
\* val_loss before the checkpoint decision; the learning rate never rises, a
\* reduction stops at min_lr, and a reduction comes only when val_loss has not
\* improved in the last Patience (3) validation checks.
C9_AsClaimed ==
    /\ C9_SteppedOncePerValidation
    /\ C9_RateBounds
    /\ \A i \in 1 .. Len(sched_log) :
          Reduced(i) =>
             /\ i >= Patience
             /\ \A j \in (i - Patience + 1) .. i : ~StrictlyImproved(j)

\* C9, amended: as above, but a reduction comes only when, in each of the last
\* Patience + 1 validation checks, val_loss failed to improve on the best
\* earlier one by more than the scheduler's relative threshold of 1e-4 (a
\* smaller improvement, although it writes a checkpoint, does not count).
C9_SchedInv ==
    /\ C9_SteppedOncePerValidation
    /\ C9_RateBounds
    /\ \A i \in 1 .. Len(sched_log) :
          Reduced(i) =>
             /\ i > Patience
             /\ \A j \in (i - Patience) .. i : ~ClearlyImproved(j)

C9_RateStep == lr' <= lr /\ (lr' # lr => pc = "sched")

C9_SchedulerAmended == []C9_SchedInv /\ [][C9_RateStep]_vars

\* a check lowered the learning rate to min_lr although one of the three
\* checks before it had strictly improved val_loss and saved a checkpoint
C9_Witness ==
    /\ AtEpochEnd
    /\ \E i \in 1 .. Len(sched_log) :
          /\ Reduced(i)
          /\ sched_log[i].new_lr = MinLr
          /\ i > Patience
          /\ StrictlyImproved(i - 1)
          /\ \E s \in 1 .. Len(saves) : saves[s].epoch = 5 * (i - 1)

---------------------------------------------------------------------------
\* C5: MixedLoss.forward raises the size ValueError whenever the logits' shape
\* differs from the mask's, before any numeric work of the focal or the Dice
\* term; with equal shapes it does all the work and returns a scalar.
C5_ShapeCheckFirst ==
    /\ target.shape # logits.shape =>
          /\ lpc \in {"focal_check", "raised"}
          /\ work = << >>
          /\ (lpc = "raised") <=> (result.kind = "ValueError")
          /\ result.kind \in {"none", "ValueError"}
    /\ result.kind = "ValueError" => (target.shape # logits.shape /\ work = << >>)
    /\ target.shape = logits.shape =>
          /\ lpc # "raised"
          /\ lpc = "returned" =>
                (result.kind = "scalar" /\ work = << "focal", "dice", "combine" >>)
    /\ lpc \in {"focal_check", "focal_math", "dice", "combine", "raised", "returned"}

\* a mask without the channel dimension, with as many elements as the logits,
\* has been refused
C5_Witness ==
    /\ lpc = "raised"
    /\ result.kind = "ValueError"
    /\ logits.shape = << 1, 1, 1, 2 >>
    /\ target.shape = << 1, 1, 2 >>
    /\ work = << >>

\* the orders in which n elements can be laid out
Perms(n) == { f \in [1 .. n -> 1 .. n] : \A i, j \in 1 .. n : f[i] = f[j] => i = j }

Permuted(xs, f) == [i \in 1 .. Len(xs) |-> xs[f[i]]]

\* 0 < d <= 1
InUnit(d) == d.m > 0 /\ LeqF(d, One32)

\* dice_loss has returned
DiceDone == lpc = "combine"

\* C6, as claimed: for logits and a mask of one shape with mask values in
\* [0, 1], dice_loss lies in (0, 1], is defined when both sums are zero, and
\* is the same whatever the order in which the elements are summed.
C6_AsClaimed ==
    DiceDone =>
        LET p == Probs(logits.data)
            m == target.data
        IN  /\ InUnit(result.dice)
            /\ (\A i \in 1 .. Len(p) : p[i] = Zero32 /\ m[i] = Zero32) =>
                  result.dice = One32
            /\ \A f \in Perms(Len(p)) :
                  DiceLoss(Permuted(p, f), Permuted(m, f)).val = result.dice

\* C6, amended: dice_loss lies in (0, 1] in every order of the elements and
\* is 1 when both sums are zero; two orders give the same value when none of
\* their sums over the elements is rounded.
C6_DiceRange ==
    DiceDone =>
        LET p == Probs(logits.data)
            m == target.data
            d == DiceLoss(p, m)
        IN  /\ InUnit(result.dice)
            /\ (\A i \in 1 .. Len(p) : p[i] = Zero32 /\ m[i] = Zero32) =>
                  result.dice = One32
            /\ \A f \in Perms(Len(p)) :
                  LET d2 == DiceLoss(Permuted(p, f), Permuted(m, f))
                  IN  /\ InUnit(d2.val)
                      /\ (d.exact /\ d2.exact) => d2.val = result.dice

\* a Dice value has been returned that another order of the same elements
\* changes: the sum of the probabilities is rounded differently
C6_Witness ==
    /\ DiceDone
    /\ Len(logits.data) = 3
    /\ InUnit(result.dice)
    /\ \E f \in Perms(3) :
          /\ DiceLoss(Permuted(Probs(logits.data), f), Permuted(target.data, f)).val
                # result.dice
          /\ ~DiceLoss(Probs(logits.data), target.data).exact

====
